---- MODULE Spec2Model ----
(***************************************************************************)
(* Model of day1/02_streamlit_app/ui.py: the chat page (question,          *)
(* generation, feedback form, "Next question"), the history list           *)
(* (filter and pagination) and the metrics analysis (five derived views).  *)
(*                                                                         *)
(* Texts are sequences of tokens, "" is the empty text <<>>.  Numbers of   *)
(* the frame are integers in tenths (1.0 is 10, 0.5 is 5, 0.1 is 1); an    *)
(* absent cell (NaN) is <<>>, a present one <<v>>.                         *)
(***************************************************************************)
EXTENDS Integers, Sequences, FiniteSets, TLC

VARIABLES
    current_question,   \* st.session_state.current_question
    current_answer,     \* st.session_state.current_answer
    response_time,      \* st.session_state.response_time (tenths of a second)
    feedback_given,     \* st.session_state.feedback_given
    question_input,     \* the text area keyed "question_input"
    form,               \* the feedback form's widgets (radio, two text areas)
    db,                 \* the rows save_to_db has appended, oldest first
    raised,             \* the exception that ended the last script run, "" if none
    lastGen,            \* history: <<question, answer, time>> of the last call of
                        \* generate_response that returned, <<>> before the first
    savedSinceGen,      \* history: a save happened since that call returned
    genOutcome,         \* history: how the last call of generate_response ended:
                        \* "none", "ok", "empty" (it returned ""), "error" (it raised)
    history_df,         \* the frame handed to the history page's functions
    page_request,       \* the page typed into the 'Page' number input
    shown               \* what the last run of a history-page function rendered

chatVars == <<current_question, current_answer, response_time, feedback_given,
              question_input, form, db, raised, lastGen, savedSinceGen,
              genOutcome>>
histVars == <<history_df, page_request, shown>>
vars == <<chatVars, histVars>>

----------------------------------------------------------------------------
(* Bounds of the model *)

\* the most rows the model lets save_to_db append
MaxDb == 2

\* cells of a numeric column: absent (NaN) or present
NaN == <<>>
Some(v) == <<v>>

(* Input texts and generation results the model draws from *)
EmptyText == <<>>
Questions == {<<"q1">>, <<"q2">>}
Comments == {EmptyText, <<"Inaccurate">>}
CorrectAnswers == {EmptyText, <<"ref">>}
\* the (reference, comment) pairs typed into the form during a chat session
FormTexts == {<<EmptyText, EmptyText>>, <<<<"ref">>, <<"Inaccurate">>>>}
\* what generate_response may return: (answer, response time in tenths)
GenerateResults == {<<<<"a1">>, 5>>, <<<<"a2">>, 20>>, <<EmptyText, 5>>}

----------------------------------------------------------------------------
(* display_feedback_form *)

feedback_options == {"Accurate", "Partially accurate", "Inaccurate"}

\* a label the radio does not offer
OtherLabels == {"Good"}

Classify_AccurateOnly(feedback) ==
    IF feedback = "Accurate" THEN 10 ELSE 0

\* line 85: is_correct, in tenths
Classify(feedback) ==
    IF feedback = "Accurate" THEN 10
    ELSE IF feedback = "Partially accurate" THEN 5 ELSE 0

CombinedFeedback_CommentFirst(feedback, feedback_comment) ==
    IF feedback_comment # EmptyText
    THEN feedback_comment \o <<": ">> \o <<feedback>>
    ELSE <<feedback>>

\* lines 86-88: combined_feedback
CombinedFeedback(feedback, feedback_comment) ==
    IF feedback_comment # EmptyText
    THEN <<feedback>> \o <<": ">> \o feedback_comment
    ELSE <<feedback>>

\* save_to_db: the persistence layer appends the row
save_to_db(question, answer, feedback, correct_answer, is_correct, rt) ==
    Append(db, [question |-> question, answer |-> answer, feedback |-> feedback,
                correct_answer |-> correct_answer,
                is_correct |-> Some(is_correct), response_time |-> Some(rt)])

\* lines 45 and 50: the feedback form is rendered
FormOffered_IgnoresFeedbackGiven ==
    current_question # EmptyText /\ current_answer # EmptyText

FormOffered ==
    /\ current_question # EmptyText /\ current_answer # EmptyText
    /\ ~feedback_given

\* lines 84-100: the form was submitted with these widget values
FeedbackSubmitted(feedback, correct_answer, feedback_comment) ==
    /\ db' = save_to_db(current_question, current_answer,
                        CombinedFeedback(feedback, feedback_comment),
                        correct_answer,
                        Classify(feedback),
                        response_time)
    /\ feedback_given' = TRUE
    /\ raised' = ""
    /\ savedSinceGen' = TRUE
    /\ UNCHANGED <<current_question, current_answer, response_time,
                   question_input, lastGen, genOutcome>>

\* "Submit feedback" pressed on the rendered form (the radio offers only
\* feedback_options)
SubmitFeedback ==
    /\ FormOffered
    /\ Len(db) < MaxDb
    /\ \E feedback \in feedback_options, texts \in FormTexts :
          FeedbackSubmitted(feedback, texts[1], texts[2])
    /\ UNCHANGED form
    /\ UNCHANGED histVars

----------------------------------------------------------------------------
(* display_chat_page *)

\* a rerun caused by typing in the question box, "Send question" not pressed
EditQuestion ==
    /\ \E q \in Questions \cup {EmptyText} :
          /\ q # question_input
          /\ question_input' = q
    /\ raised' = ""
    /\ UNCHANGED <<current_question, current_answer, response_time,
                   feedback_given, form, db, lastGen, savedSinceGen,
                   genOutcome>>
    /\ UNCHANGED histVars

SendQuestion_StaleTime ==
    /\ question_input # EmptyText
    /\ \E r \in GenerateResults :
          /\ current_question' = question_input
          /\ feedback_given' = FALSE
          /\ current_answer' = r[1]
          /\ response_time' = response_time
          /\ lastGen' = <<question_input, r[1], r[2]>>
          /\ genOutcome' = IF r[1] = EmptyText THEN "empty" ELSE "ok"
    /\ savedSinceGen' = FALSE
    /\ raised' = ""
    /\ UNCHANGED <<question_input, form, db>>
    /\ UNCHANGED histVars

\* lines 33-42: "Send question" with a non-empty box, generate_response returns
SendQuestion ==
    /\ question_input # EmptyText
    /\ \E r \in GenerateResults :
          /\ current_question' = question_input
          /\ feedback_given' = FALSE
          /\ current_answer' = r[1]
          /\ response_time' = r[2]
          /\ lastGen' = <<question_input, r[1], r[2]>>
          /\ genOutcome' = IF r[1] = EmptyText THEN "empty" ELSE "ok"
    /\ savedSinceGen' = FALSE
    /\ raised' = ""
    /\ UNCHANGED <<question_input, form, db>>
    /\ UNCHANGED histVars

SendQuestionGenerationError_KeepsAnswer ==
    /\ question_input # EmptyText
    /\ current_question' = question_input
    /\ feedback_given' = FALSE
    /\ raised' = "GenerationError"
    /\ genOutcome' = "error"
    /\ UNCHANGED <<current_answer, response_time, question_input, form, db,
                   lastGen, savedSinceGen>>
    /\ UNCHANGED histVars

\* lines 33-39: "Send question" with a non-empty box, generate_response raises:
\* lines 34-36 have run, lines 40-42 have not
SendQuestionGenerationError ==
    /\ question_input # EmptyText
    /\ current_question' = question_input
    /\ current_answer' = EmptyText
    /\ feedback_given' = FALSE
    /\ raised' = "GenerationError"
    /\ genOutcome' = "error"
    /\ UNCHANGED <<response_time, question_input, form, db, lastGen,
                   savedSinceGen>>
    /\ UNCHANGED histVars

\* lines 52-58: "Next question" pressed
NextQuestion ==
    /\ current_question # EmptyText /\ current_answer # EmptyText
    /\ feedback_given
    /\ current_question' = EmptyText
    /\ current_answer' = EmptyText
    /\ response_time' = 0
    /\ feedback_given' = FALSE
    /\ question_input' \in {question_input, EmptyText}
    /\ raised' = ""
    /\ UNCHANGED <<form, db, lastGen, savedSinceGen, genOutcome>>
    /\ UNCHANGED histVars

----------------------------------------------------------------------------
(* display_data_page *)

\* lines 292-294: "Clear database" pressed, clear_db deletes every row
ClearDatabase ==
    /\ db # <<>>
    /\ db' = <<>>
    /\ raised' = ""
    /\ UNCHANGED <<current_question, current_answer, response_time,
                   feedback_given, question_input, form, lastGen, savedSinceGen,
                   genOutcome>>
    /\ UNCHANGED histVars

----------------------------------------------------------------------------
(* The frame of the history page.  A frame is its set of column names and  *)
(* its rows in the order get_chat_history returns them; a row maps every   *)
(* column to a cell.                                                       *)

items_per_page == 5
HeadCount == 10

\* the most rows a frame of the model holds, and the largest page typed
MaxRows == 11
MaxPageRequest == 4

Min(a, b) == IF a <= b THEN a ELSE b
Max(a, b) == IF a >= b THEN a ELSE b

\* nothing of the history page has been rendered for the frame yet
NothingShown == [tab |-> "none"]

NumericColumns == {"is_correct", "response_time", "bleu_score",
                   "similarity_score", "relevance_score", "word_count"}
AllColumns == NumericColumns \cup {"id"}

\* rows i of a frame whose cells in column c are present
NotnaAny(rows, c) == \E i \in 1..Len(rows) : rows[i][c] # NaN

----------------------------------------------------------------------------
(* display_history_list *)

\* lines 125-130: the radio's options and the score each one filters on
\* (<<>> for "Show All")
filter_options ==
    [o \in {"Show All", "Accurate only", "Partially accurate only",
            "Inaccurate only"} |->
        CASE o = "Show All" -> NaN
          [] o = "Accurate only" -> Some(10)
          [] o = "Partially accurate only" -> Some(5)
          [] o = "Inaccurate only" -> Some(0)]

\* lines 138-145: filtered_df
FilteredRows(rows, display_option) ==
    LET filter_value == filter_options[display_option]
        Match(r) == r.is_correct # NaN /\ r.is_correct = filter_value
    IN  IF filter_value # NaN THEN SelectSeq(rows, Match) ELSE rows

total_pages_RoundsDown(total_items) == total_items \div items_per_page

\* line 153: total_pages
total_pages(total_items) ==
    (total_items + items_per_page - 1) \div items_per_page

\* lines 154-160: st.number_input keeps the value typed within
\* [min_value, max_value]
number_input(min_value, max_value, typed) ==
    Max(min_value, Min(max_value, typed))

\* line 164: filtered_df.iloc[start_idx:end_idx]
iloc(rows, start_idx, end_idx) ==
    SubSeq(rows, start_idx + 1, Min(end_idx, Len(rows)))

\* lines 122-185 for one choice of the filter radio and one page typed
HistoryList(rows, display_option, typed) ==
    LET filtered_df == FilteredRows(rows, display_option)
        total_items == Len(filtered_df)
        current_page == number_input(1, total_pages(total_items), typed)
        start_idx == (current_page - 1) * items_per_page
        end_idx == start_idx + items_per_page
        paginated_df == iloc(filtered_df, start_idx, end_idx)
    IN  IF filtered_df = <<>>
        THEN [tab |-> "list", status |-> "info", option |-> display_option,
              typed |-> typed, page |-> 0, ids |-> <<>>,
              caption |-> <<0, 0, 0>>]
        ELSE [tab |-> "list", status |-> "rows", option |-> display_option,
              typed |-> typed, page |-> current_page,
              ids |-> [i \in 1..Len(paginated_df) |-> paginated_df[i].id],
              caption |-> <<start_idx + 1, Min(end_idx, total_items),
                            total_items>>]

\* lines 109-116: the History tab of a non-empty history (a pure function of
\* the frame and the two widgets, applied once to the frame drawn)
DisplayHistoryList ==
    /\ shown = NothingShown
    /\ history_df.rows # <<>>
    /\ \E display_option \in DOMAIN filter_options, typed \in 0..MaxPageRequest :
          /\ page_request' = typed
          /\ shown' = HistoryList(history_df.rows, display_option, typed)
    /\ UNCHANGED history_df
    /\ UNCHANGED chatVars

\* lines 109-111: the history page of an empty history
DisplayHistoryPageEmpty ==
    /\ shown = NothingShown
    /\ history_df.rows = <<>>
    /\ shown' = [tab |-> "page", status |-> "info"]
    /\ UNCHANGED <<history_df, page_request>>
    /\ UNCHANGED chatVars

----------------------------------------------------------------------------
(* display_metrics_analysis *)

\* line 197: accuracy_labels, and line 198: the Accuracy column (NaN for a
\* score that is not a key)
accuracy_labels(cell) ==
    CASE cell = Some(10) -> "Accurate"
      [] cell = Some(5) -> "Partially accurate"
      [] cell = Some(0) -> "Inaccurate"
      [] OTHER -> "NaN"

\* lines 192 and 198: analysis_df, the rows with a score, with their Accuracy
analysis_df(rows) ==
    LET HasScore(r) == r.is_correct # NaN
        kept == SelectSeq(rows, HasScore)
    IN  [i \in 1..Len(kept) |->
            kept[i] @@ ("Accuracy" :> accuracy_labels(kept[i].is_correct))]

NotRendered == [status |-> "none"]
Info == [status |-> "info"]

\* lines 201-206: value_counts of the Accuracy column
AccuracyDistribution(adf) ==
    LET present == {adf[i].Accuracy : i \in 1..Len(adf)} \ {"NaN"}
        accuracy_counts ==
            [l \in present |-> Cardinality({i \in 1..Len(adf) : adf[i].Accuracy = l})]
    IN  IF present # {} THEN [status |-> "chart", counts |-> accuracy_counts]
        ELSE Info

metric_options == {"bleu_score", "similarity_score", "relevance_score", "word_count"}

\* lines 211-214: valid_metric_options
valid_metric_options(adf, columns) ==
    {m \in metric_options : m \in columns /\ NotnaAny(adf, m)}

\* line 223: selecting the three columns raises KeyError when one is missing
PairingRaises(adf, columns) ==
    /\ valid_metric_options(adf, columns) # {}
    /\ "response_time" \notin columns

\* lines 216-234 when line 223 does not raise
MetricVsLatency(adf, columns, metric_option) ==
    IF valid_metric_options(adf, columns) # {}
    THEN LET Complete(r) == /\ r.response_time # NaN
                            /\ r[metric_option] # NaN
                            /\ r.Accuracy # "NaN"
             kept == SelectSeq(adf, Complete)
             chart_data == [i \in 1..Len(kept) |->
                               <<kept[i].response_time[1], kept[i][metric_option][1],
                                 kept[i].Accuracy>>]
         IN  IF chart_data # <<>>
             THEN [status |-> "chart", metric |-> metric_option, data |-> chart_data]
             ELSE [status |-> "info", metric |-> metric_option]
    ELSE Info

stats_cols == {"response_time", "bleu_score", "similarity_score", "word_count",
               "relevance_score"}

\* lines 239-242: valid_stats_cols
valid_stats_cols(adf, columns) ==
    {c \in stats_cols : c \in columns /\ NotnaAny(adf, c)}

\* the present values of column c, as (row position, value) pairs, and their sum
Present(adf, c) == {<<i, adf[i][c][1]>> : i \in {j \in 1..Len(adf) : adf[j][c] # NaN}}

RECURSIVE SumOf(_)
SumOf(pairs) ==
    IF pairs = {} THEN 0
    ELSE LET p == CHOOSE q \in pairs : TRUE IN p[2] + SumOf(pairs \ {p})

\* lines 243-247: describe(), of which the model keeps count, sum, min and max
OverallStatistics(adf, columns) ==
    LET cols == valid_stats_cols(adf, columns)
        Describe(c) ==
            LET vals == {p[2] : p \in Present(adf, c)}
            IN  [count |-> Cardinality(Present(adf, c)),
                 sum |-> SumOf(Present(adf, c)),
                 min |-> CHOOSE v \in vals : \A w \in vals : v <= w,
                 max |-> CHOOSE v \in vals : \A w \in vals : v >= w]
    IN  IF cols # {} THEN [status |-> "table", stats |-> [c \in cols |-> Describe(c)]]
        ELSE Info

\* lines 251-258: groupby('Accuracy').mean(), a mean kept as (sum, count);
\* nothing in the try block raises on numeric cells
AveragesByAccuracy(adf, columns) ==
    LET cols == valid_stats_cols(adf, columns)
        groups == {adf[i].Accuracy : i \in 1..Len(adf)} \ {"NaN"}
        Group(l) == LET InGroup(r) == r.Accuracy = l IN SelectSeq(adf, InGroup)
        Mean(l, c) == <<SumOf(Present(Group(l), c)), Cardinality(Present(Group(l), c))>>
    IN  IF cols # {}
        THEN [status |-> "table",
              means |-> [l \in groups |-> [c \in cols |-> Mean(l, c)]]]
        ELSE Info

\* line 263: efficiency_score = is_correct / (response_time.fillna(0) + 0.1),
\* kept as the fraction <<numerator, denominator>> of tenths
fillna(cell, value) == IF cell = NaN THEN value ELSE cell[1]
efficiency_score(r) == <<r.is_correct[1], fillna(r.response_time, 0) + 1>>

\* a >= b for two fractions with positive denominators
EffGE(a, b) == a[1] * b[2] >= b[1] * a[2]
EffEq(a, b) == a[1] * b[2] = b[1] * a[2]

InsertAt(seq, k, x) == SubSeq(seq, 1, k) \o <<x>> \o SubSeq(seq, k + 1, Len(seq))

RECURSIVE SortOutcomes(_)
\* line 265: sort_values('efficiency_score', ascending=False) with the default
\* sort kind, which is not stable: every ordering of the rows that descends
\* in efficiency_score, rows of equal score in any order
SortOutcomes(rows) ==
    IF rows = <<>> THEN {<<>>}
    ELSE LET r == Head(rows)
             e == efficiency_score(r)
             Places(sorted) ==
                 {k \in 0..Len(sorted) :
                     /\ \A j \in 1..k : EffGE(efficiency_score(sorted[j]), e)
                     /\ \A j \in (k + 1)..Len(sorted) :
                           EffGE(e, efficiency_score(sorted[j]))}
         IN  UNION {{InsertAt(sorted, k, r) : k \in Places(sorted)} :
                        sorted \in SortOutcomes(Tail(rows))}

\* .head(10)
head(rows, n) == SubSeq(rows, 1, Min(n, Len(rows)))

\* lines 262-276 for one outcome of the sort
EfficiencyRanking(adf, columns, sorted) ==
    IF "response_time" \in columns /\ NotnaAny(adf, "response_time")
    THEN LET top_efficiency == head(sorted, HeadCount)
         IN  IF "id" \in columns
             THEN IF top_efficiency # <<>>
                  THEN [status |-> "chart",
                        bars |-> [i \in 1..Len(top_efficiency) |->
                                     <<top_efficiency[i].id,
                                       efficiency_score(top_efficiency[i])>>]]
                  ELSE Info
             ELSE [status |-> "chart",
                   bars |-> [i \in 1..Len(top_efficiency) |->
                                <<i, efficiency_score(top_efficiency[i])>>]]
    ELSE Info

\* lines 188-276 for one choice of the metric selectbox and one outcome of
\* the sort; an exception ends the function where it is raised
MetricsAnalysis(df, metric_option, sorted) ==
    LET adf == analysis_df(df.rows)
        base == [tab |-> "metrics", warning |-> FALSE, raised |-> "",
                 distribution |-> NotRendered, pairing |-> NotRendered,
                 statistics |-> NotRendered, averages |-> NotRendered,
                 efficiency |-> NotRendered]
    IN  IF adf = <<>>
        THEN [base EXCEPT !.warning = TRUE]
        ELSE IF PairingRaises(adf, df.columns)
        THEN [base EXCEPT !.distribution = AccuracyDistribution(adf),
                          !.raised = "KeyError"]
        ELSE [base EXCEPT
                !.distribution = AccuracyDistribution(adf),
                !.pairing = MetricVsLatency(adf, df.columns, metric_option),
                !.statistics = OverallStatistics(adf, df.columns),
                !.averages = AveragesByAccuracy(adf, df.columns),
                !.efficiency = EfficiencyRanking(adf, df.columns, sorted)]

\* lines 109-119: the Metrics Analysis tab of a non-empty history (a pure
\* function of the frame, the selectbox and the sort's outcome, applied once)
DisplayMetricsAnalysis ==
    /\ shown = NothingShown
    /\ history_df.rows # <<>>
    /\ LET adf == analysis_df(history_df.rows)
           valid == valid_metric_options(adf, history_df.columns)
           sorts == /\ adf # <<>>
                    /\ ~PairingRaises(adf, history_df.columns)
                    /\ "response_time" \in history_df.columns
                    /\ NotnaAny(adf, "response_time")
       IN  \E metric_option \in (IF valid = {} THEN {"none"} ELSE valid),
              sorted \in (IF sorts THEN SortOutcomes(adf) ELSE {<<>>}) :
              shown' = MetricsAnalysis(history_df, metric_option, sorted)
    /\ UNCHANGED <<history_df, page_request>>
    /\ UNCHANGED chatVars

----------------------------------------------------------------------------
NoForm == [feedback_radio |-> "Accurate", correct_answer_input |-> EmptyText,
           feedback_comment_input |-> EmptyText]

HistIdle ==
    /\ history_df = [columns |-> AllColumns, rows |-> <<>>]
    /\ page_request = 1
    /\ shown = NothingShown

ChatIdle ==
    /\ current_question = EmptyText
    /\ current_answer = EmptyText
    /\ response_time = 0
    /\ feedback_given = FALSE
    /\ question_input = EmptyText
    /\ form = NoForm
    /\ db = <<>>
    /\ raised = ""
    /\ lastGen = <<>>
    /\ savedSinceGen = FALSE
    /\ genOutcome = "none"

\* lines 23-30: the session state of a new session, the database empty
Init ==
    /\ ChatIdle
    /\ HistIdle

Next ==
    \/ EditQuestion
    \/ SendQuestion
    \/ SendQuestionGenerationError
    \/ SubmitFeedback
    \/ NextQuestion
    \/ ClearDatabase

Spec == Init /\ [][Next]_vars

----------------------------------------------------------------------------
(* The feedback handler on its own: a rendered form holding any label,     *)
(* comment and reference, submitted once.                                  *)

Labels == feedback_options \cup OtherLabels

InitFeedback ==
    /\ \E q \in Questions, r \in GenerateResults :
          /\ r[1] # EmptyText
          /\ current_question = q
          /\ current_answer = r[1]
          /\ response_time = r[2]
          /\ lastGen = <<q, r[1], r[2]>>
          /\ question_input = q
    /\ feedback_given = FALSE
    /\ form \in [feedback_radio : Labels, correct_answer_input : CorrectAnswers,
                 feedback_comment_input : Comments]
    /\ db = <<>>
    /\ raised = ""
    /\ savedSinceGen = FALSE
    /\ genOutcome = "ok"
    /\ HistIdle

\* lines 84-100 with the values the form holds
SubmitFeedbackForm ==
    /\ FormOffered
    /\ FeedbackSubmitted(form.feedback_radio, form.correct_answer_input,
                         form.feedback_comment_input)
    /\ UNCHANGED form
    /\ UNCHANGED histVars

NextFeedback == SubmitFeedbackForm

SpecFeedback == InitFeedback /\ [][NextFeedback]_vars

----------------------------------------------------------------------------
(* The history page on its own: display_history_list and                   *)
(* display_metrics_analysis applied to a frame drawn from a bounded        *)
(* family.  Row i has id i; its score, response time and metrics follow    *)
(* the patterns below, so that rows tie in efficiency (ids 2 and 3, ...,   *)
(* 10 and 11), lack feedback or a response time, or lack every metric.     *)

ScorePattern(s, i) ==
    CASE s = "accurate" -> 10
      [] s = "two" -> IF i % 2 = 0 THEN 5 ELSE 10
      [] s = "three" -> IF i % 4 = 0 THEN 0 ELSE IF i % 4 = 2 THEN 5 ELSE 10

FrameRow(i, f, v, s, m) ==
    [id |-> i,
     is_correct |-> IF f = "none" \/ (f = "gap" /\ i = 2) THEN NaN
                    ELSE Some(ScorePattern(s, i)),
     response_time |-> IF v = "none" \/ (v = "gap" /\ i = 3) THEN NaN
                       ELSE Some(i \div 2),
     word_count |-> IF m = "none" THEN NaN ELSE Some(i % 3),
     relevance_score |-> IF m = "none" THEN NaN ELSE Some(i % 2),
     bleu_score |-> IF m = "all" /\ i % 2 = 0 THEN Some(5) ELSE NaN,
     similarity_score |-> IF m = "all" /\ i % 2 = 0 THEN Some(7) ELSE NaN]

Frame(n, newestFirst, columns, f, v, s, m) ==
    [columns |-> columns,
     rows |-> [k \in 1..n |->
                 FrameRow(IF newestFirst THEN n + 1 - k ELSE k, f, v, s, m)]]

Frames ==
    {Frame(n, newestFirst, columns, f, v, s, m) :
        n \in 0..MaxRows, newestFirst \in BOOLEAN,
        columns \in {AllColumns, AllColumns \ {"response_time"},
                     AllColumns \ {"id"}},
        f \in {"all", "gap", "none"}, v \in {"all", "gap", "none"},
        s \in {"accurate", "two", "three"}, m \in {"all", "none"}}

InitHistory ==
    /\ ChatIdle
    /\ history_df \in Frames
    /\ page_request = 1
    /\ shown = NothingShown

NextHistory ==
    \/ DisplayHistoryPageEmpty
    \/ DisplayHistoryList
    \/ DisplayMetricsAnalysis

SpecHistory == InitHistory /\ [][NextHistory]_vars

----------------------------------------------------------------------------
(* Claims about the chat page and the feedback form *)

\* a step in which save_to_db appended a row, and that row
Save == Len(db') = Len(db) + 1
Saved == db'[Len(db')]

\* the label a stored feedback text starts with
LabelOf(row) == Head(row.feedback)

\* the score the specification fixes for each label, in tenths
FixedScore(label) ==
    CASE label = "Accurate" -> 10
      [] label = "Partially accurate" -> 5
      [] label = "Inaccurate" -> 0
      [] OTHER -> -1

\* the handler of the form has run
Submitted == feedback_given \/ raised # ""

C2_ScoreFromLabelOnly ==
    (Submitted /\ form.feedback_radio \in feedback_options) =>
        LET label == form.feedback_radio
            comment == form.feedback_comment_input
            text == db[1].feedback
        IN  /\ Len(db) = 1
            /\ db[1].is_correct = Some(FixedScore(label))
            /\ Len(text) >= 1 + Len(comment)
            /\ Head(text) = label
            /\ SubSeq(text, Len(text) - Len(comment) + 1, Len(text)) = comment
            /\ (comment = EmptyText => text = <<label>>)

C2_Witness ==
    /\ Submitted
    /\ form.feedback_radio = "Partially accurate"
    /\ form.feedback_comment_input # EmptyText
    /\ db[1].is_correct = Some(5)

\* C7: every persisted record has an accuracy score iff it has a feedback
\* label, and the score is the one fixed for that label.
C7_ScoreIffLabel ==
    \A i \in 1..Len(db) :
        /\ (db[i].is_correct # NaN) <=> (db[i].feedback # EmptyText)
        /\ db[i].feedback # EmptyText
              => /\ LabelOf(db[i]) \in feedback_options
                 /\ db[i].is_correct = Some(FixedScore(LabelOf(db[i])))

C7_Witness ==
    /\ Len(db) = 2
    /\ LabelOf(db[1]) = "Partially accurate"
    /\ Len(db[1].feedback) > 1
    /\ LabelOf(db[2]) = "Inaccurate"
    /\ current_question = EmptyText

\* C8: a save happens only while feedback_given is false, and at most once
\* after each call of generate_response that returned.
C8_OneSavePerGeneration ==
    [][Save => (~feedback_given /\ ~savedSinceGen /\ genOutcome = "ok")]_vars

C8_Witness ==
    /\ Len(db) = 2
    /\ feedback_given
    /\ savedSinceGen
    /\ db[1].question = db[2].question
    /\ db[1].answer = db[2].answer

\* C9: while the last generation raised or returned an empty answer, no form
\* is offered and nothing is saved; no persisted record has an empty answer.
C9_FailedGenerationNoRecord ==
    /\ [](genOutcome \in {"error", "empty"} => ~FormOffered)
    /\ [](\A i \in 1..Len(db) : db[i].answer # EmptyText)
    /\ [][Save => genOutcome = "ok"]_vars

C9_Witness ==
    /\ genOutcome = "error"
    /\ lastGen # <<>> /\ lastGen[2] # EmptyText
    /\ current_question # lastGen[1]
    /\ response_time = lastGen[3]
    /\ db # <<>>

\* C10: the question, answer and response time of a saved record are those
\* of one call of generate_response, the last one that returned.
C10_SavedFromOneGeneration ==
    [][Save =>
        /\ lastGen # <<>>
        /\ <<Saved.question, Saved.answer, Saved.response_time>>
              = <<lastGen[1], lastGen[2], Some(lastGen[3])>>]_vars

C10_Witness ==
    /\ Len(db) = 2
    /\ db[1].question # db[2].question
    /\ db[1].answer # db[2].answer
    /\ question_input # current_question
    /\ current_question = db[2].question

----------------------------------------------------------------------------
(* Claims about the history page *)

\* the row of the frame with this id
RowOfId(id) ==
    LET i == CHOOSE j \in 1..Len(history_df.rows) : history_df.rows[j].id = id
    IN  history_df.rows[i]

RankingShown ==
    /\ shown.tab = "metrics"
    /\ shown.efficiency.status = "chart"
    /\ "id" \in history_df.columns

\* the rows with feedback, and whether each of them has a response time
Eligible == {i \in 1..Len(history_df.rows) : history_df.rows[i].is_correct # NaN}
AllTimed == \A i \in Eligible : history_df.rows[i].response_time # NaN

\* row a comes before row b: a higher efficiency score, or the same and a lower id
Before(a, b) ==
    LET ea == efficiency_score(a)
        eb == efficiency_score(b)
    IN  \/ ~EffGE(eb, ea)
        \/ EffEq(ea, eb) /\ a.id < b.id

RankOf(i) ==
    1 + Cardinality({j \in Eligible : Before(history_df.rows[j], history_df.rows[i])})

\* C3: the ranking is the (at most) 10 records of highest efficiency score,
\* in descending order of score, records of equal score by ascending id,
\* whatever the order of the rows in the input.
C3_TopTenTiesById ==
    (RankingShown /\ AllTimed) =>
        /\ Len(shown.efficiency.bars) = Min(HeadCount, Cardinality(Eligible))
        /\ \A k \in 1..Len(shown.efficiency.bars) :
              \E i \in Eligible :
                  /\ RankOf(i) = k
                  /\ shown.efficiency.bars[k] =
                        <<history_df.rows[i].id, efficiency_score(history_df.rows[i])>>

\* C4: no record lacking a response time appears in the ranking.
C4_UntimedExcluded ==
    RankingShown =>
        \A k \in 1..Len(shown.efficiency.bars) :
            RowOfId(shown.efficiency.bars[k][1]).response_time # NaN

Views == {"distribution", "pairing", "statistics", "averages", "efficiency"}

\* C5: once there is feedback to analyse, every one of the five views is
\* computed and reports a result or its own empty or error state, whatever
\* happens in the others.
C5_ViewsIndependent ==
    (shown.tab = "metrics" /\ ~shown.warning) =>
        \A view \in Views : shown[view].status # "none"

====
